---------------------------- MODULE Spec2Model ----------------------------
(***************************************************************************)
(* Model of configure-serial.py: one process that opens a serial device,  *)
(* reads its terminal attributes, overwrites them with a raw profile and  *)
(* applies them.  The process can be launched repeatedly (MaxRuns times)  *)
(* on a host with two serial devices, so that consecutive runs can be     *)
(* compared.                                                              *)
(*                                                                         *)
(* Flag words (iflag, oflag, cflag, lflag) are sets of bit positions; the *)
(* bitwise OR of the source is set union and the word 0 is {}.  Bit       *)
(* positions, control-character indices and speed constants are those of  *)
(* the Linux termios module.  An output line is the sequence of the       *)
(* pieces of its f-string.                                                 *)
(*                                                                         *)
(* Each call of the operating system (os.open, tcgetattr, tcsetattr,      *)
(* os.close) either succeeds or raises; a tcsetattr that raises installs  *)
(* nothing.  Writes to standard output and standard error are taken to    *)
(* succeed, and no other process changes a device between two runs.       *)
(***************************************************************************)
EXTENDS Integers, Sequences, FiniteSets, TLC

(* ------------------------------ bounds --------------------------------- *)

\* Number of times the script is launched in one behaviour.
MaxRuns == 2

\* Length of the modelled control-character table (termios.NCCS is larger;
\* the entries beyond VMIN are never touched by the script).
NCCS == 8

(* ------------------------ termios module (host) ------------------------ *)

VINTR == 0
VEOF == 4
VTIME == 5
VMIN == 6

BitOr(a, b) == a \cup b

CS7 == {5}
CS8 == {4, 5}
CSTOPB == {6}
CREAD == {7}
PARENB == {8}
PARODD == {9}
HUPCL == {10}
CLOCAL == {11}

\* The candidate rates of line 21, in the order the loop visits them.
Candidates == <<115200, 230400, 460800, 921600>>

\* The value of termios.B<rate> on a host that defines it.
TermiosB(rate) ==
    CASE rate = 9600   -> 13
      [] rate = 38400  -> 15
      [] rate = 115200 -> 4098
      [] rate = 230400 -> 4099
      [] rate = 460800 -> 4100
      [] rate = 921600 -> 4103

(* ----------------------------- environment ----------------------------- *)

Devices == {"/dev/ttyS0", "/dev/ttyS1"}
Paths == Devices \cup {"/dev/nonexistent"}

CcTable(vintr, veof, vtime, vmin) ==
    [i \in 0..(NCCS - 1) |->
        IF i = VINTR THEN vintr
        ELSE IF i = VEOF THEN veof
        ELSE IF i = VTIME THEN vtime
        ELSE IF i = VMIN THEN vmin
        ELSE 0]

\* A freshly opened tty in canonical mode: ICRNL|IXON, OPOST|ONLCR,
\* CS8|CREAD|HUPCL, ISIG|ICANON|ECHO, 38400 baud, VMIN=1.
CookedAttrs ==
    [iflag |-> {8, 10}, oflag |-> {0, 2},
     cflag |-> BitOr(BitOr(CS8, CREAD), HUPCL), lflag |-> {0, 1, 3},
     ispeed |-> TermiosB(38400), ospeed |-> TermiosB(38400),
     cc |-> CcTable(3, 4, 0, 1)]

\* A line left at 9600 7O2 by an earlier program, blocking reads with a
\* timeout, interrupt character disabled.
ParityAttrs ==
    [iflag |-> {4}, oflag |-> {},
     cflag |-> BitOr(BitOr(BitOr(CS7, CSTOPB), BitOr(PARENB, PARODD)), CREAD),
     lflag |-> {},
     ispeed |-> TermiosB(9600), ospeed |-> TermiosB(9600),
     cc |-> CcTable(0, 4, 5, 2)]

PriorAttrs == {CookedAttrs, ParityAttrs}

\* The digits of a command-line argument.
BaudArgs ==
    { <<"1", "1", "5", "2", "0", "0">>, <<"2", "3", "0", "4", "0", "0">>,
      <<"4", "6", "0", "8", "0", "0">>, <<"9", "2", "1", "6", "0", "0">>,
      <<"9", "6", "0", "0">>, <<"f", "a", "s", "t">> }

\* sys.argv[1:]
Argvs ==
    {<<>>} \cup { <<p>> : p \in Paths }
           \cup { <<p, b>> : p \in Paths, b \in BaudArgs }

(* ------------------------------- state --------------------------------- *)

VARIABLES
    hostRates,   \* the rates r for which the host's termios defines B<r>
    tty,         \* kernel: terminal attributes of each device
    argv,        \* sys.argv[1:] of the running process
    pc,          \* the line the process is at
    port_path,   \* local of configure_serial_raw
    baudrate,    \* local of configure_serial_raw
    fd,          \* local: the descriptor (named by the path it refers to)
    attrs,       \* local: the list tcgetattr returned
    baud,        \* local: the resolved speed constant
    e,           \* the exception caught at line 61
    fdtable,     \* descriptors the process holds open
    stdout,      \* lines written to standard output
    stderr,      \* lines written to standard error
    status,      \* exit status, NoStatus while running
    trace,       \* history: the calls of this run, in order
    applied,     \* history: the attribute lists tcsetattr installed, this run
    tty0,        \* history: tty when this run was launched
    prevRun,     \* history: summary of the run before this one
    runs         \* history: launches so far

vars == <<hostRates, tty, argv, pc, port_path, baudrate, fd, attrs, baud, e,
          fdtable, stdout, stderr, status, trace, applied, tty0, prevRun, runs>>

NoStatus == -1
NoFd == ""
NoAttrs ==
    [iflag |-> {}, oflag |-> {}, cflag |-> {}, lflag |-> {},
     ispeed |-> 0, ospeed |-> 0, cc |-> CcTable(0, 0, 0, 0)]
NoExc == [type |-> "None", tb_lineno |-> 0, msg |-> ""]
NoRun == [port |-> "", baud |-> -1, status |-> NoStatus,
          applied |-> <<>>, after |-> NoAttrs]

(* --------------------------- pure functions ---------------------------- *)

DigitVal(c) ==
    CASE c = "0" -> 0 [] c = "1" -> 1 [] c = "2" -> 2 [] c = "3" -> 3
      [] c = "4" -> 4 [] c = "5" -> 5 [] c = "6" -> 6 [] c = "7" -> 7
      [] c = "8" -> 8 [] c = "9" -> 9

IsDigits(s) ==
    /\ Len(s) > 0
    /\ \A i \in 1..Len(s) :
          s[i] \in {"0", "1", "2", "3", "4", "5", "6", "7", "8", "9"}

RECURSIVE ParseInt(_)
\* int(s) for a string of decimal digits.
ParseInt(s) ==
    IF Len(s) = 0 THEN 0
    ELSE 10 * ParseInt(SubSeq(s, 1, Len(s) - 1)) + DigitVal(s[Len(s)])

\* Line 66.
ArgPort(args) == IF Len(args) > 0 THEN args[1] ELSE "/dev/ttyS0"

\* Line 67, for an argument int() accepts.
ArgBaud(args) == IF Len(args) > 1 THEN ParseInt(args[2]) ELSE 115200

\* Line 67 raises ValueError.
ArgBaudInvalid(args) == Len(args) > 1 /\ ~IsDigits(args[2])

\* Lines 20-24: the dict built by probing hasattr(termios, 'B<rate>').
Baudrates(host) ==
    [rate \in {Candidates[i] : i \in 1..Len(Candidates)} \cap host |->
        TermiosB(rate)]

\* Line 26.
NotAvailable(rate, baudrates) == rate \notin DOMAIN baudrates

\* Lines 26-28: the value of baudrate after the if.
EffectiveBaudrate(rate, baudrates) ==
    IF NotAvailable(rate, baudrates) THEN 115200 ELSE rate

\* Variant of line 29 that always takes the default.
BaudConst_Default(rate, baudrates) == TermiosB(115200)

\* Line 29: baudrates.get(baudrate, termios.B115200), once the default
\* argument has been evaluated.
BaudConst(rate, baudrates) ==
    IF rate \in DOMAIN baudrates THEN baudrates[rate] ELSE TermiosB(115200)

\* Variant of line 35 that leaves the input flags as read.
SetInputFlags_Keep(iflag) == iflag

\* Line 35.
SetInputFlags(iflag) == {}

\* Line 38.
SetOutputFlags(oflag) == {}

\* Variant of line 41 that ORs the bits into the word read (cflag |= ...).
SetControlFlags_Patch(cflag) ==
    BitOr(cflag, BitOr(BitOr(CS8, CREAD), CLOCAL))

\* Variant of line 41 that toggles the bits in the word read (cflag ^= ...).
SetControlFlags_Toggle(cflag) ==
    (cflag \ BitOr(BitOr(CS8, CREAD), CLOCAL))
        \cup (BitOr(BitOr(CS8, CREAD), CLOCAL) \ cflag)

\* Line 41.
SetControlFlags(cflag) == BitOr(BitOr(CS8, CREAD), CLOCAL)

\* Line 44.
SetLocalFlags(lflag) == {}

\* Variant of lines 47-48 without line 48.
SetControlChars_VminOnly(cc) == [cc EXCEPT ![VMIN] = 0]

\* Lines 47-48.
SetControlChars(cc) == [cc EXCEPT ![VMIN] = 0, ![VTIME] = 0]

\* Lines 32-51: the list handed to tcsetattr.
RawAttrs(a, speed) ==
    [iflag |-> SetInputFlags(a.iflag), oflag |-> SetOutputFlags(a.oflag),
     cflag |-> SetControlFlags(a.cflag), lflag |-> SetLocalFlags(a.lflag),
     ispeed |-> speed, ospeed |-> speed, cc |-> SetControlChars(a.cc)]

\* Line 27.
WarningLine(rate) ==
    <<"Warning:", "Baudrate", ToString(rate), "not available, using 115200">>

\* Lines 53-56.
ConfirmLines(path, rate) ==
    << <<"[configure-serial]", "Configured", path, "for raw binary mode">>,
       <<"[configure-serial]", "Baud rate:", ToString(rate)>>,
       <<"[configure-serial]",
         "iflag=0, oflag=0, lflag=0 (all processing disabled)">>,
       <<"[configure-serial]", "VMIN=0, VTIME=0 (non-blocking)">> >>

\* Line 62.
ErrorLine(exc) == <<"Error:", exc.msg>>

\* What the kernel answers to os.open on a path.
OpenErrors(path) ==
    IF path \in Devices
    THEN {"[Errno 13] Permission denied"}
    ELSE {"[Errno 2] No such file or directory"}

\* A finished run, as the next one remembers it: of a failed run only
\* that it failed.
Summary ==
    IF status = 0
    THEN [port |-> port_path, baud |-> ArgBaud(argv), status |-> status,
          applied |-> applied, after |-> tty[port_path]]
    ELSE [NoRun EXCEPT !.status = status]

(* ------------------------------- actions ------------------------------- *)

Init ==
    /\ hostRates \in SUBSET {Candidates[i] : i \in 1..Len(Candidates)}
    /\ tty \in [Devices -> PriorAttrs]
    /\ argv = <<>>
    /\ pc = "idle"
    /\ port_path = ""
    /\ baudrate = 0
    /\ fd = NoFd
    /\ attrs = NoAttrs
    /\ baud = 0
    /\ e = NoExc
    /\ fdtable = {}
    /\ stdout = <<>>
    /\ stderr = <<>>
    /\ status = NoStatus
    /\ trace = <<>>
    /\ applied = <<>>
    /\ tty0 = tty
    /\ prevRun = NoRun
    /\ runs = 0

\* A new process: everything the previous one held is gone.
Launch(args) ==
    /\ pc \in {"idle", "done"}
    /\ runs < MaxRuns
    /\ runs' = runs + 1
    /\ prevRun' = IF pc = "done" THEN Summary ELSE prevRun
    /\ argv' = args
    /\ tty0' = tty
    /\ fd' = NoFd
    /\ attrs' = NoAttrs
    /\ baud' = 0
    /\ e' = NoExc
    /\ fdtable' = {}
    /\ stdout' = <<>>
    /\ trace' = <<>>
    /\ applied' = <<>>
    /\ UNCHANGED <<hostRates, tty>>

\* Lines 65-68: the arguments are read and configure_serial_raw is entered.
Main(args) ==
    /\ Launch(args)
    /\ ~ArgBaudInvalid(args)
    /\ port_path' = ArgPort(args)
    /\ baudrate' = ArgBaud(args)
    /\ stderr' = <<>>
    /\ status' = NoStatus
    /\ pc' = "open"

\* Line 67: int() raises ValueError outside the try; the interpreter prints
\* the traceback and exits with status 1.
MainValueError(args) ==
    /\ Launch(args)
    /\ ArgBaudInvalid(args)
    /\ port_path' = ArgPort(args)
    /\ baudrate' = 0
    /\ stderr' = << <<"Traceback (most recent call last):">>,
                    <<"ValueError:", "invalid literal for int() with base 10">> >>
    /\ status' = 1
    /\ pc' = "done"

\* Line 14, os.open succeeds.
Open ==
    /\ pc = "open"
    /\ port_path \in Devices
    /\ fd' = port_path
    /\ fdtable' = fdtable \cup {port_path}
    /\ trace' = Append(trace, "os.open")
    /\ pc' = "tcgetattr"
    /\ UNCHANGED <<hostRates, tty, argv, port_path, baudrate, attrs, baud, e,
                   stdout, stderr, status, applied, tty0, prevRun, runs>>

\* Line 14, os.open raises OSError.
OpenFault ==
    /\ pc = "open"
    /\ \E m \in OpenErrors(port_path) :
          e' = [type |-> "OSError", tb_lineno |-> 14, msg |-> m]
    /\ trace' = Append(trace, "os.open!")
    /\ pc' = "except"
    /\ UNCHANGED <<hostRates, tty, argv, port_path, baudrate, fd, attrs, baud,
                   fdtable, stdout, stderr, status, applied, tty0, prevRun,
                   runs>>

\* Line 17, tcgetattr succeeds.
TcGetAttr ==
    /\ pc = "tcgetattr"
    /\ attrs' = tty[fd]
    /\ trace' = Append(trace, "tcgetattr")
    /\ pc' = "baud"
    /\ UNCHANGED <<hostRates, tty, argv, port_path, baudrate, fd, baud, e,
                   fdtable, stdout, stderr, status, applied, tty0, prevRun,
                   runs>>

\* Variant of line 17 in which the error of tcgetattr is swallowed and the
\* run goes on with the attributes it has.
TcGetAttrFault_Ignored ==
    /\ pc = "tcgetattr"
    /\ trace' = Append(trace, "tcgetattr!")
    /\ pc' = "baud"
    /\ UNCHANGED <<hostRates, tty, argv, port_path, baudrate, fd, attrs, baud,
                   e, fdtable, stdout, stderr, status, applied, tty0, prevRun,
                   runs>>

\* Line 17, tcgetattr raises termios.error.
TcGetAttrFault ==
    /\ pc = "tcgetattr"
    /\ e' = [type |-> "termios.error", tb_lineno |-> 17,
             msg |-> "(5, 'Input/output error')"]
    /\ trace' = Append(trace, "tcgetattr!")
    /\ pc' = "except"
    /\ UNCHANGED <<hostRates, tty, argv, port_path, baudrate, fd, attrs, baud,
                   fdtable, stdout, stderr, status, applied, tty0, prevRun,
                   runs>>

\* Lines 20-28: the table is probed, the requested rate is checked against
\* it and replaced, with a warning, when it is not there.
CheckBaudrate ==
    /\ pc = "baud"
    /\ LET baudrates == Baudrates(hostRates) IN
          /\ stdout' = IF NotAvailable(baudrate, baudrates)
                       THEN Append(stdout, WarningLine(baudrate))
                       ELSE stdout
          /\ baudrate' = EffectiveBaudrate(baudrate, baudrates)
    /\ pc' = "get"
    /\ UNCHANGED <<hostRates, tty, argv, port_path, fd, attrs, baud, e,
                   fdtable, stderr, status, trace, applied, tty0, prevRun,
                   runs>>

\* Line 29: the argument termios.B115200 is evaluated, then the lookup.
GetBaud ==
    /\ pc = "get"
    /\ 115200 \in hostRates
    /\ baud' = BaudConst(baudrate, Baudrates(hostRates))
    /\ pc' = "tcsetattr"
    /\ UNCHANGED <<hostRates, tty, argv, port_path, baudrate, fd, attrs, e,
                   fdtable, stdout, stderr, status, trace, applied, tty0,
                   prevRun, runs>>

\* Line 29: termios has no attribute B115200; evaluating the argument
\* raises AttributeError before the lookup.
GetBaudAttributeError ==
    /\ pc = "get"
    /\ 115200 \notin hostRates
    /\ e' = [type |-> "AttributeError", tb_lineno |-> 29,
             msg |-> "module 'termios' has no attribute 'B115200'"]
    /\ pc' = "except"
    /\ UNCHANGED <<hostRates, tty, argv, port_path, baudrate, fd, attrs, baud,
                   fdtable, stdout, stderr, status, trace, applied, tty0,
                   prevRun, runs>>

\* Lines 32-51, tcsetattr succeeds: the kernel installs the list.
TcSetAttr ==
    /\ pc = "tcsetattr"
    /\ tty' = [tty EXCEPT ![fd] = RawAttrs(attrs, baud)]
    /\ applied' = Append(applied, RawAttrs(attrs, baud))
    /\ trace' = Append(trace, "tcsetattr")
    /\ pc' = "print"
    /\ UNCHANGED <<hostRates, argv, port_path, baudrate, fd, attrs, baud, e,
                   fdtable, stdout, stderr, status, tty0, prevRun, runs>>

\* Lines 32-51, tcsetattr raises termios.error: nothing is installed.
TcSetAttrFault ==
    /\ pc = "tcsetattr"
    /\ e' = [type |-> "termios.error", tb_lineno |-> 51,
             msg |-> "(22, 'Invalid argument')"]
    /\ trace' = Append(trace, "tcsetattr!")
    /\ pc' = "except"
    /\ UNCHANGED <<hostRates, tty, argv, port_path, baudrate, fd, attrs, baud,
                   fdtable, stdout, stderr, status, applied, tty0, prevRun,
                   runs>>

\* Lines 53-56.
PrintConfirmation ==
    /\ pc = "print"
    /\ stdout' = stdout \o ConfirmLines(port_path, baudrate)
    /\ trace' = Append(trace, "print")
    /\ pc' = "close"
    /\ UNCHANGED <<hostRates, tty, argv, port_path, baudrate, fd, attrs, baud,
                   e, fdtable, stderr, status, applied, tty0, prevRun, runs>>

\* Line 58, os.close succeeds.
Close ==
    /\ pc = "close"
    /\ fdtable' = fdtable \ {fd}
    /\ trace' = Append(trace, "os.close")
    /\ pc' = "exit"
    /\ UNCHANGED <<hostRates, tty, argv, port_path, baudrate, fd, attrs, baud,
                   e, stdout, stderr, status, applied, tty0, prevRun, runs>>

\* Line 58, os.close raises OSError; whether the descriptor is released
\* all the same depends on the kernel.
CloseFault ==
    /\ pc = "close"
    /\ fdtable' \in {fdtable, fdtable \ {fd}}
    /\ e' = [type |-> "OSError", tb_lineno |-> 58,
             msg |-> "[Errno 5] Input/output error"]
    /\ trace' = Append(trace, "os.close!")
    /\ pc' = "except"
    /\ UNCHANGED <<hostRates, tty, argv, port_path, baudrate, fd, attrs, baud,
                   stdout, stderr, status, applied, tty0, prevRun, runs>>

\* Line 59: SystemExit is no Exception, so line 61 does not catch it.
Exit0 ==
    /\ pc = "exit"
    /\ status' = 0
    /\ trace' = Append(trace, "sys.exit")
    /\ pc' = "done"
    /\ UNCHANGED <<hostRates, tty, argv, port_path, baudrate, fd, attrs, baud,
                   e, fdtable, stdout, stderr, applied, tty0, prevRun, runs>>

\* Variant of lines 61-63 whose print lacks file=sys.stderr.
Except_Stdout ==
    /\ pc = "except"
    /\ stdout' = Append(stdout, ErrorLine(e))
    /\ status' = 1
    /\ trace' = Append(trace, "sys.exit")
    /\ pc' = "done"
    /\ UNCHANGED <<hostRates, tty, argv, port_path, baudrate, fd, attrs, baud,
                   e, fdtable, stderr, applied, tty0, prevRun, runs>>

\* Lines 61-63.
Except ==
    /\ pc = "except"
    /\ stderr' = Append(stderr, ErrorLine(e))
    /\ status' = 1
    /\ trace' = Append(trace, "sys.exit")
    /\ pc' = "done"
    /\ UNCHANGED <<hostRates, tty, argv, port_path, baudrate, fd, attrs, baud,
                   e, fdtable, stdout, applied, tty0, prevRun, runs>>

Next ==
    \/ \E args \in Argvs : Main(args)
    \/ \E args \in Argvs : MainValueError(args)
    \/ Open
    \/ OpenFault
    \/ TcGetAttr
    \/ TcGetAttrFault
    \/ CheckBaudrate
    \/ GetBaud
    \/ GetBaudAttributeError
    \/ TcSetAttr
    \/ TcSetAttrFault
    \/ PrintConfirmation
    \/ Close
    \/ CloseFault
    \/ Exit0
    \/ Except

Spec == Init /\ [][Next]_vars

(* ------------------------ vocabulary of the claims --------------------- *)

Allowed == {Candidates[i] : i \in 1..Len(Candidates)}

\* The rates of the allow-list the host supports.
Supported == Allowed \cap hostRates

\* The calls of this run.
Events == {trace[i] : i \in 1..Len(trace)}

\* A call of the operating system faulted in this run.
OsFaulted == Events \cap {"os.open!", "tcgetattr!", "tcsetattr!", "os.close!"} # {}

\* The run is over and its baud argument was an integer.
Finished == pc = "done" /\ ~ArgBaudInvalid(argv)

Succeeded == pc = "done" /\ status = 0

\* The lines of standard output that are confirmation, resp. warning lines.
Confirmations == SelectSeq(stdout, LAMBDA l : Head(l) = "[configure-serial]")
Warnings == SelectSeq(stdout, LAMBDA l : Head(l) = "Warning:")

\* Lines 20-28 have been executed in this run.
BaudChecked ==
    \/ pc \in {"get", "tcsetattr", "print", "close", "exit"}
    \/ pc \in {"except", "done"} /\ e.tb_lineno \in {29, 51, 58}
    \/ Succeeded

\* Two runs in a row succeeded with the same requested rate.
SameBaudTwice ==
    Succeeded /\ prevRun.status = 0 /\ prevRun.baud = ArgBaud(argv)

(* -------------------------------- claims ------------------------------- *)

\* C1 (as claimed): in every run in which os.open succeeded, the descriptor
\* has been closed when the process terminates, whether with status 0 or 1.
C1_HandleReleasedOnEveryPath ==
    (pc = "done" /\ "os.open" \in Events) => fd \notin fdtable

\* C2 (as claimed): for every integer requested rate and every set of rates
\* the host exposes, a run in which no operating-system call faults ends
\* with status 0; an unsupported rate only adds the warning and 115200.
C2_NeverFailsBecauseOfBaud ==
    (Finished /\ ~OsFaulted) =>
        /\ status = 0
        /\ ArgBaud(argv) \notin Supported =>
              Warnings = <<WarningLine(ArgBaud(argv))>> /\ baudrate = 115200

C4_SnapshotFromBaudAlone ==
    SameBaudTwice => applied = prevRun.applied

\* C4 (amended): two successful runs with the same requested rate apply
\* snapshots that agree on the four flag words, both speeds and the VMIN
\* and VTIME entries; every other control character is the one the device
\* had before the run.
C4_SnapshotUpToControlChars ==
    /\ SameBaudTwice =>
          LET a == applied[1]
              b == prevRun.applied[1]
          IN  /\ a.iflag = b.iflag /\ a.oflag = b.oflag
              /\ a.cflag = b.cflag /\ a.lflag = b.lflag
              /\ a.ispeed = b.ispeed /\ a.ospeed = b.ospeed
              /\ a.cc[VMIN] = b.cc[VMIN] /\ a.cc[VTIME] = b.cc[VTIME]
    /\ \A i \in 1..Len(applied) :
          \A k \in (DOMAIN applied[i].cc) \ {VMIN, VTIME} :
              applied[i].cc[k] = tty0[fd].cc[k]

C4_Witness ==
    /\ SameBaudTwice
    /\ prevRun.port # port_path
    /\ tty0[port_path].cflag # tty0[prevRun.port].cflag
    /\ applied[1].cc[VINTR] # prevRun.applied[1].cc[VINTR]

\* C5: when two runs in a row succeed on the same device with the same
\* requested rate, the device's attributes after the second are those after
\* the first: the second run changes nothing.
C5_Idempotent ==
    (SameBaudTwice /\ prevRun.port = port_path) =>
        /\ tty[port_path] = prevRun.after
        /\ tty[port_path] = tty0[port_path]

C5_Witness ==
    /\ SameBaudTwice
    /\ prevRun.port = port_path
    /\ prevRun.after # CookedAttrs
    /\ prevRun.after # ParityAttrs
    /\ applied # <<>>

\* C6: when os.open (a nonexistent path included), tcgetattr or tcsetattr
\* faults, the process ends with status 1, standard error holds exactly one
\* line, which begins with Error:, and no confirmation line was printed.
C6_FailureContract ==
    /\ (pc = "done" /\ e.tb_lineno \in {14, 17, 51}) =>
          /\ status = 1
          /\ Len(stderr) = 1
          /\ Head(stderr[1]) = "Error:"
          /\ Confirmations = <<>>
    /\ (Finished /\ port_path \notin Devices) => e.tb_lineno = 14
    /\ (pc # "done" /\ pc # "idle") => status = NoStatus /\ stderr = <<>>

C6_Witness ==
    /\ pc = "done"
    /\ port_path = "/dev/nonexistent"
    /\ e.tb_lineno = 14
    /\ stderr = << <<"Error:", "[Errno 2] No such file or directory">> >>

\* C7 (as claimed): a run on an accessible device in which no operating-
\* system call faults applies the attributes, then prints the four
\* confirmation lines, then closes the descriptor and ends with status 0
\* and an empty standard error; without arguments the device is /dev/ttyS0
\* and the rate reported is 115200.
C7_SuccessContract ==
    (Finished /\ port_path \in Devices /\ ~OsFaulted) =>
        /\ status = 0
        /\ trace = <<"os.open", "tcgetattr", "tcsetattr", "print",
                     "os.close", "sys.exit">>
        /\ Confirmations = ConfirmLines(port_path, baudrate)
        /\ Len(Confirmations) = 4
        /\ fd \notin fdtable
        /\ stderr = <<>>
        /\ argv = <<>> =>
              Confirmations = ConfirmLines("/dev/ttyS0", 115200)

\* C8: after a successful configuration the control-flag word of the
\* device is exactly CS8 | CREAD | CLOCAL, with none of PARENB, PARODD and
\* CSTOPB, whatever it held before.
C8_ControlFlags ==
    /\ \A i \in 1..Len(applied) :
          /\ applied[i].cflag = CS8 \cup CREAD \cup CLOCAL
          /\ applied[i].cflag \cap (PARENB \cup PARODD \cup CSTOPB) = {}
    /\ Succeeded =>
          /\ tty[port_path].cflag = CS8 \cup CREAD \cup CLOCAL
          /\ tty[port_path].cflag \cap (PARENB \cup PARODD \cup CSTOPB) = {}

C8_Witness ==
    /\ Succeeded
    /\ tty0[port_path].cflag \cap PARENB # {}
    /\ tty0[port_path].cflag \cap CSTOPB # {}
    /\ tty[port_path].cflag \cap (PARENB \cup CSTOPB) = {}

\* C9: after a successful configuration the control-character table of the
\* device has VMIN = 0 and VTIME = 0, whatever it held before.
C9_VminVtimeZero ==
    /\ \A i \in 1..Len(applied) :
          applied[i].cc[VMIN] = 0 /\ applied[i].cc[VTIME] = 0
    /\ Succeeded =>
          tty[port_path].cc[VMIN] = 0 /\ tty[port_path].cc[VTIME] = 0

C9_Witness ==
    /\ Succeeded
    /\ tty0[port_path].cc[VMIN] = 2
    /\ tty0[port_path].cc[VTIME] = 5
    /\ tty[port_path].cc[VMIN] = 0
    /\ tty[port_path].cc[VTIME] = 0

\* C10: when os.open or tcgetattr faults, tcsetattr is never called and the
\* attributes of every device at the end of the run are those at its start;
\* in every run tcsetattr is called at most once, and only after tcgetattr
\* succeeded.
C10_FrameOnEarlyFailure ==
    LET Calls == {i \in 1..Len(trace) : trace[i] \in {"tcsetattr", "tcsetattr!"}}
    IN  /\ (Events \cap {"os.open!", "tcgetattr!"} # {}) =>
              /\ Calls = {}
              /\ tty = tty0
        /\ Cardinality(Calls) <= 1
        /\ Len(applied) <= 1
        /\ \A i \in Calls : \E j \in 1..(i - 1) : trace[j] = "tcgetattr"
        /\ Calls = {} => tty = tty0

C10_Witness ==
    /\ pc = "done"
    /\ e.tb_lineno = 17
    /\ status = 1
    /\ fd \in Devices
    /\ tty = tty0


=============================================================================
